---- MODULE Spec2Model ----
(***************************************************************************)
(* Archivist of Moirai: the round state machine of Game.jsx, the profile   *)
(* document it reads and writes through Firestore, the retrying fetch of   *)
(* api/ai.js and the fragment relay route of server.js.                    *)
(***************************************************************************)
EXTENDS Integers, Sequences, FiniteSets, TLC

(* ------------------------------ bounds --------------------------------- *)
\* Spec: start_round calls over the whole run (all sessions together), mounts
\* of the Game component (first authentication included), profile writes in
\* flight at the same time
MaxCalls == 6
MaxLogins == 2
MaxPending == 1
\* SpecRace: the same, for short sessions whose writes overlap
RaceCalls == 1
RaceLogins == 2
RacePending == 2
\* SpecRelogin: the same, for two sessions of which the first ends mid-round
ReloginCalls == 2
ReloginLogins == 2
ReloginPending == 1
\* SpecSession: start_round calls and writes in flight in the one session
SessionCalls == 3
SessionPending == 1
\* SpecRounds: the same, for a session that is played on without signing out
RoundCalls == 6
RoundPending == 1
\* SpecLoad: start_round calls and writes in flight in the one session
LoadCalls == 2
LoadPending == 1
\* SpecFetch: the largest retries argument tried
MaxRetries == 4
\* SpecRelay: the longest text of the model, in pieces
MaxTokens == 5

(* --------------------------- program constants ------------------------- *)
Tags == {"FATE", "CHOICE", "CHANCE"}
Null == "null"
\* a field the stored document does not have (JavaScript undefined)
Undefined == -1
ScoreStep == 10
PromotionEvery == 5
AttemptsPerRound == 5
\* exponentialBackoffFetch: default retries, HTTP statuses, delays in ms
DefaultRetries == 3
RateLimited == 429
Statuses == {200, 429, 500}
\* the status recorded for a transport call that threw
Thrown == 0
BaseDelay == 1000
RateLimitJitter == 1000
ConnectionJitter == 500

\* JavaScript  x || d  on a number field: undefined and 0 are falsy
OrDefault(x, d) == IF x = Undefined \/ x = 0 THEN d ELSE x

\* useState initial value of stats (username left out)
DefaultStats ==
  [currentScore |-> 0, currentStreak |-> 0, highestStreak |-> 0,
   difficultyTier |-> 1, highestScore |-> 0]

\* the profile document; exists = FALSE is a missing document
NoDoc ==
  [exists |-> FALSE, currentScore |-> Undefined, currentStreak |-> Undefined,
   highestStreak |-> Undefined, difficultyTier |-> Undefined,
   highestScore |-> Undefined, totalRoundsPlayed |-> Undefined]

\* a document left by an earlier session that reached a streak of 5 (and so
\* tier 2) in its first round of attempts and then signed out
ReturningDoc ==
  [exists |-> TRUE, currentScore |-> 0, currentStreak |-> 0,
   highestStreak |-> 5, difficultyTier |-> 2,
   highestScore |-> 50, totalRoundsPlayed |-> 1]

\* the document setDoc creates on first authentication
RegistrationDoc ==
  [exists |-> TRUE, currentScore |-> 0, currentStreak |-> 0,
   highestStreak |-> 0, difficultyTier |-> 1,
   highestScore |-> Undefined, totalRoundsPlayed |-> Undefined]

\* no fragment request has been issued
NoRequest == {}

VARIABLES
  registered,           \* the account was created (createUserWithEmailAndPassword)
  isAuthenticated,      \* Registration state: the Game component is mounted
  gameState, initialLoadComplete,
  stats, totalRoundsPlayed, attemptCount,
  secretTag, userClassification, currentFragment, revelationText, errorMessage,
  request,              \* the fragment requests awaited, and the one settled last
  store,                \* the users/{uid} document
  pending,              \* profile writes issued and not yet acknowledged
  lastApplied,          \* the kind of the write the store applied last
  lastOp,               \* the handler that ran last
  calls, spent, logins, \* start_round calls of this session / of earlier ones; mounts
  baseRounds,           \* totalRoundsPlayed when the profile fetch finished
  term,                 \* what the sign-out write looked like when onSignOut ran
  correct,              \* correct classifications made in this session
  fScript,              \* what the transport answers to its 1st, 2nd, ... call
  fPc, fRetries, fI,    \* exponentialBackoffFetch: position, retries, loop index i
  fResponse, fError,    \* the response it returned, the error it threw
  fLog,                 \* its transport calls and waits, in order
  rPc,                  \* the relay route: idle, received, calling, responded
  rBody,                \* req.body of the request being handled
  rModel,               \* what generateContent did for this request
  rResponse,            \* the response sent for this request
  rModelCalls, rSent    \* generateContent calls / responses sent for this request

gameVars == <<gameState, initialLoadComplete, stats, totalRoundsPlayed, attemptCount,
              secretTag, userClassification, currentFragment, revelationText,
              errorMessage, request>>
sessionVars == <<registered, isAuthenticated, gameVars, store, pending,
                 lastApplied, lastOp,
                 calls, spent, logins, baseRounds, term, correct>>
fetchVars == <<fScript, fPc, fRetries, fI, fResponse, fError, fLog>>
relayVars == <<rPc, rBody, rModel, rResponse, rModelCalls, rSent>>
vars == <<sessionVars, fetchVars, relayVars>>

NoTerm == [state |-> "none", currentScore |-> 0, currentStreak |-> 0]
NoResponse == [status |-> Thrown, attempt |-> 0]

\* JavaScript values that cross the relay: undefined, strings, numbers
Absent == [type |-> "undefined", v |-> ""]
Str(s) == [type |-> "string", v |-> s]
Num(d) == [type |-> "number", v |-> d]

\* !!x
Truthy(x) ==
  CASE x.type = "undefined" -> FALSE
    [] x.type = "string" -> x.v # ""
    [] x.type = "number" -> x.v # "0"

\* the reply recorded for a request that has not been answered yet
Unanswered ==
  [status |-> Undefined, fragmentText |-> Absent, revelationText |-> Absent]

NoBody == [secretTag |-> Absent, difficultyTier |-> Absent]
NoModel == [kind |-> "none", text |-> <<>>, message |-> ""]
NoRelayResponse ==
  [status |-> 0, fragmentText |-> Absent, revelationText |-> Absent,
   error |-> "", detail |-> ""]

\* the relay route before any request
InitRelay ==
  /\ rPc = "idle"
  /\ rBody = NoBody
  /\ rModel = NoModel
  /\ rResponse = NoRelayResponse
  /\ rModelCalls = 0
  /\ rSent = 0

\* variant: the attempt counter outlives the component
Mounted_KeepAttempts ==
  /\ gameState' = "loading"
  /\ initialLoadComplete' = FALSE
  /\ stats' = DefaultStats
  /\ totalRoundsPlayed' = 0
  /\ attemptCount' = attemptCount
  /\ secretTag' = Null
  /\ userClassification' = Null
  /\ currentFragment' = ""
  /\ revelationText' = Null
  /\ errorMessage' = Null
  /\ request' = NoRequest

\* the state of a freshly mounted Game component (the useState initial values)
Mounted ==
  /\ gameState' = "loading"
  /\ initialLoadComplete' = FALSE
  /\ stats' = DefaultStats
  /\ totalRoundsPlayed' = 0
  /\ attemptCount' = 0
  /\ secretTag' = Null
  /\ userClassification' = Null
  /\ currentFragment' = ""
  /\ revelationText' = Null
  /\ errorMessage' = Null
  /\ request' = NoRequest

InitSession ==
  /\ registered = FALSE
  /\ isAuthenticated = FALSE
  /\ gameState = "loading"
  /\ initialLoadComplete = FALSE
  /\ stats = DefaultStats
  /\ totalRoundsPlayed = 0
  /\ attemptCount = 0
  /\ secretTag = Null
  /\ userClassification = Null
  /\ currentFragment = ""
  /\ revelationText = Null
  /\ errorMessage = Null
  /\ request = NoRequest
  /\ store = NoDoc
  /\ pending = <<>>
  /\ lastApplied = "none"
  /\ lastOp = "init"
  /\ calls = 0
  /\ spent = 0
  /\ logins = 0
  /\ baseRounds = 0
  /\ term = NoTerm
  /\ correct = 0

Init ==
  /\ InitSession
  /\ fScript = <<>>
  /\ fPc = "idle"
  /\ fRetries = DefaultRetries
  /\ fI = 0
  /\ fResponse = NoResponse
  /\ fError = "none"
  /\ fLog = <<>>
  /\ InitRelay

(* ------------------------- the profile store --------------------------- *)
\* the fields updateStatsInDb sends: the stats it was given and the
\* totalRoundsPlayed of the render that created the callback
StatsWrite(newStats, rounds) ==
  [exists |-> TRUE,
   currentScore |-> newStats.currentScore,
   currentStreak |-> newStats.currentStreak,
   highestStreak |-> newStats.highestStreak,
   difficultyTier |-> newStats.difficultyTier,
   highestScore |-> newStats.highestScore,
   totalRoundsPlayed |-> rounds]

Write(kind, data) == [kind |-> kind, data |-> data, state |-> "inflight"]

\* updateStatsInDb(newStats): updateDoc is issued; its promise settles later
updateStatsInDb(kind, newStats) ==
  pending' = Append(pending, Write(kind, StatsWrite(newStats, totalRoundsPlayed)))

Remove(q, i) == SubSeq(q, 1, i - 1) \o SubSeq(q, i + 1, Len(q))

\* variant: a write that was not applied stays in flight (it is sent again)
WriteSettle_Retry(i, ok) ==
  /\ pending[i].state = "inflight"
  /\ LET w == pending[i]
         applied == ok /\ (w.kind = "create" \/ store.exists)
     IN /\ store' = IF applied THEN w.data ELSE store
        /\ lastApplied' = IF applied THEN w.kind ELSE lastApplied
        /\ pending' = IF ~applied
                        THEN pending
                        ELSE IF w.kind = "signout"
                               THEN [pending EXCEPT ![i].state = "applied"]
                               ELSE Remove(pending, i)
  /\ lastOp' = "settle"
  /\ UNCHANGED <<fetchVars, relayVars>>
  /\ UNCHANGED <<registered, isAuthenticated, gameVars, calls, spent, logins,
                 baseRounds, term, correct>>

\* Firestore answers a write: setDoc replaces the document, updateDoc changes
\* the six fields of an existing document and is rejected when there is none;
\* either can fail (ok = FALSE).  The writes are acknowledged in any order.
WriteSettle(i, ok) ==
  /\ pending[i].state = "inflight"
  /\ LET w == pending[i]
         applied == ok /\ (w.kind = "create" \/ store.exists)
     IN /\ store' = IF applied THEN w.data ELSE store
        /\ lastApplied' = IF applied THEN w.kind ELSE lastApplied
        /\ pending' = IF w.kind = "signout"
                        THEN [pending EXCEPT ![i].state =
                                IF applied THEN "applied" ELSE "failed"]
                        ELSE Remove(pending, i)
  /\ lastOp' = "settle"
  /\ UNCHANGED <<fetchVars, relayVars>>
  /\ UNCHANGED <<registered, isAuthenticated, gameVars, calls, spent, logins,
                 baseRounds, term, correct>>

(* --------------------------- authentication ---------------------------- *)
\* first authentication: createUserWithEmailAndPassword signs the new user in
\* (the auth listener mounts Game) and setDoc creates the profile document
Register ==
  /\ ~registered
  /\ registered' = TRUE
  /\ isAuthenticated' = TRUE
  /\ Mounted
  /\ pending' = Append(pending, Write("create", RegistrationDoc))
  /\ logins' = logins + 1
  /\ lastOp' = "register"
  /\ UNCHANGED <<fetchVars, relayVars>>
  /\ UNCHANGED <<store, lastApplied, calls, spent, baseRounds, term>>
  /\ correct' = 0

\* signInWithEmailAndPassword: the auth listener mounts a fresh Game
Login ==
  /\ registered
  /\ ~isAuthenticated
  /\ isAuthenticated' = TRUE
  /\ Mounted
  /\ logins' = logins + 1
  /\ spent' = spent + calls
  /\ calls' = 0
  /\ baseRounds' = 0
  /\ term' = NoTerm
  /\ correct' = 0
  /\ lastOp' = "login"
  /\ UNCHANGED <<fetchVars, relayVars>>
  /\ UNCHANGED <<registered, store, lastApplied, pending>>

(* ------------------------------ Game.jsx ------------------------------- *)
\* variant: the counters of the last session are loaded with the rest
LoadedStats_KeepCurrent(s, userData) ==
  [s EXCEPT !.currentScore = OrDefault(userData.currentScore, 0),
            !.currentStreak = OrDefault(userData.currentStreak, 0),
            !.highestStreak = OrDefault(userData.highestStreak, 0),
            !.difficultyTier = OrDefault(userData.difficultyTier, 1),
            !.highestScore = OrDefault(userData.highestScore, 0)]

\* variant: highestScore is not loaded
LoadedStats_NoHighestScore(s, userData) ==
  [s EXCEPT !.currentScore = 0,
            !.currentStreak = 0,
            !.highestStreak = OrDefault(userData.highestStreak, 0),
            !.difficultyTier = OrDefault(userData.difficultyTier, 1)]

\* the stats fetchUserData sets from the document it read
LoadedStats(s, userData) ==
  [s EXCEPT !.currentScore = 0,
            !.currentStreak = 0,
            !.highestStreak = OrDefault(userData.highestStreak, 0),
            !.difficultyTier = OrDefault(userData.difficultyTier, 1),
            !.highestScore = OrDefault(userData.highestScore, 0)]

\* variant: the effect runs again later in the session
fetchUserData_Rerun(ok) ==
  /\ isAuthenticated
  /\ IF ok /\ store.exists
       THEN /\ totalRoundsPlayed' = OrDefault(store.totalRoundsPlayed, 0)
            /\ stats' = LoadedStats(stats, store)
            /\ errorMessage' = errorMessage
       ELSE /\ UNCHANGED <<totalRoundsPlayed, stats>>
            /\ errorMessage' = IF ok THEN errorMessage ELSE "Data Error"
  /\ gameState' = "ready_to_start"
  /\ initialLoadComplete' = TRUE
  /\ baseRounds' = totalRoundsPlayed'
  /\ lastOp' = "profile"
  /\ UNCHANGED <<fetchVars, relayVars>>
  /\ UNCHANGED <<registered, isAuthenticated, attemptCount, secretTag,
                 userClassification, currentFragment, revelationText, request,
                 store, lastApplied, pending, calls, spent, logins, term, correct>>

\* the mount effect: getDoc answers (ok) or throws (~ok)
fetchUserData(ok) ==
  /\ isAuthenticated
  /\ gameState = "loading"
  /\ ~initialLoadComplete
  /\ IF ok /\ store.exists
       THEN /\ totalRoundsPlayed' = OrDefault(store.totalRoundsPlayed, 0)
            /\ stats' = LoadedStats(stats, store)
            /\ errorMessage' = errorMessage
       ELSE /\ UNCHANGED <<totalRoundsPlayed, stats>>
            /\ errorMessage' = IF ok THEN errorMessage ELSE "Data Error"
  /\ gameState' = "ready_to_start"
  /\ initialLoadComplete' = TRUE
  /\ baseRounds' = totalRoundsPlayed'
  /\ lastOp' = "profile"
  /\ UNCHANGED <<fetchVars, relayVars>>
  /\ UNCHANGED <<registered, isAuthenticated, attemptCount, secretTag,
                 userClassification, currentFragment, revelationText, request,
                 store, lastApplied, pending, calls, spent, logins, term, correct>>

\* variant: every attempt counts as a round
startNewRound_CountEvery(randomSecretTag) ==
  /\ isAuthenticated
  /\ gameState \in {"ready_to_start", "revealing", "error"}
  /\ gameState' = "loading"
  /\ initialLoadComplete' = TRUE
  /\ errorMessage' = Null
  /\ userClassification' = Null
  /\ revelationText' = Null
  /\ currentFragment' = ""
  /\ totalRoundsPlayed' = totalRoundsPlayed + 1
  /\ attemptCount' = (attemptCount + 1) % AttemptsPerRound
  /\ request' = {r \in request : r.state = "inflight"}
                  \cup {[id |-> calls + 1, secretTag |-> randomSecretTag,
                         difficultyTier |-> stats.difficultyTier,
                         state |-> "inflight", reply |-> Unanswered,
                         fragmentText |-> "", revelationText |-> ""]}
  /\ calls' = calls + 1
  /\ lastOp' = "start"
  /\ UNCHANGED <<fetchVars, relayVars>>
  /\ UNCHANGED <<registered, isAuthenticated, stats, secretTag, store,
                 lastApplied, pending,
                 spent, logins, baseRounds, term, correct>>

\* variant: the continue button stays up while the fragment is being fetched
startNewRound_WhileLoading(randomSecretTag) ==
  /\ isAuthenticated
  /\ \/ gameState \in {"ready_to_start", "revealing", "error"}
     \/ gameState = "loading" /\ initialLoadComplete
  /\ gameState' = "loading"
  /\ initialLoadComplete' = TRUE
  /\ errorMessage' = Null
  /\ userClassification' = Null
  /\ revelationText' = Null
  /\ currentFragment' = ""
  /\ totalRoundsPlayed' = IF attemptCount = 0 THEN totalRoundsPlayed + 1
                                               ELSE totalRoundsPlayed
  /\ attemptCount' = (attemptCount + 1) % AttemptsPerRound
  /\ request' = {r \in request : r.state = "inflight"}
                  \cup {[id |-> calls + 1, secretTag |-> randomSecretTag,
                         difficultyTier |-> stats.difficultyTier,
                         state |-> "inflight", reply |-> Unanswered,
                         fragmentText |-> "", revelationText |-> ""]}
  /\ calls' = calls + 1
  /\ lastOp' = "start"
  /\ UNCHANGED <<fetchVars, relayVars>>
  /\ UNCHANGED <<registered, isAuthenticated, stats, secretTag, store,
                 lastApplied, pending,
                 spent, logins, baseRounds, term, correct>>

\* what startNewRound(stats.difficultyTier) does to the component up to its
\* await; the two buttons that call it are rendered only in ready_to_start and
\* in revealing / error
StartRound(randomSecretTag) ==
  /\ isAuthenticated
  /\ gameState \in {"ready_to_start", "revealing", "error"}
  /\ gameState' = "loading"
  /\ initialLoadComplete' = TRUE
  /\ errorMessage' = Null
  /\ userClassification' = Null
  /\ revelationText' = Null
  /\ currentFragment' = ""
  /\ totalRoundsPlayed' = IF attemptCount = 0 THEN totalRoundsPlayed + 1
                                               ELSE totalRoundsPlayed
  /\ attemptCount' = (attemptCount + 1) % AttemptsPerRound
  /\ request' = {r \in request : r.state = "inflight"}
                  \cup {[id |-> calls + 1, secretTag |-> randomSecretTag,
                         difficultyTier |-> stats.difficultyTier,
                         state |-> "inflight", reply |-> Unanswered,
                         fragmentText |-> "", revelationText |-> ""]}
  /\ calls' = calls + 1
  /\ lastOp' = "start"
  /\ UNCHANGED <<registered, isAuthenticated, stats, secretTag, store,
                 lastApplied, pending,
                 spent, logins, baseRounds, term, correct>>

\* startNewRound with the answer to its request left open (any of Replies)
startNewRound(randomSecretTag) ==
  /\ StartRound(randomSecretTag)
  /\ UNCHANGED <<fetchVars, relayVars>>

\* what exponentialBackoffFetch hands to fetchFragmentFromAI: a thrown error,
\* or a response with its status and the two fields of its JSON body (both
\* undefined when the body has neither or is not JSON: response.json() throws)
Replies ==
  {[status |-> Thrown, fragmentText |-> Absent, revelationText |-> Absent],
   [status |-> 200, fragmentText |-> Str("fragment"),
    revelationText |-> Str("revelation")],
   [status |-> 200, fragmentText |-> Str(""),
    revelationText |-> Str("revelation")],
   [status |-> 200, fragmentText |-> Str("fragment"),
    revelationText |-> Absent],
   [status |-> 200, fragmentText |-> Absent, revelationText |-> Absent],
   [status |-> 500, fragmentText |-> Absent, revelationText |-> Absent],
   [status |-> RateLimited, fragmentText |-> Absent, revelationText |-> Absent]}

\* response.ok
ResponseOk(reply) == reply.status >= 200 /\ reply.status <= 299

\* fetchFragmentFromAI: resolves with the two texts, or throws (ok = FALSE)
fetchFragmentFromAI(reply) ==
  IF /\ reply.status # Thrown
     /\ ResponseOk(reply)
     /\ Truthy(reply.fragmentText)
     /\ Truthy(reply.revelationText)
    THEN [ok |-> TRUE, fragmentText |-> reply.fragmentText.v,
          revelationText |-> reply.revelationText.v]
    ELSE [ok |-> FALSE, fragmentText |-> "", revelationText |-> ""]

\* variant: the tag shown is drawn again when the fragment arrives
FragmentDone_FreshTag(r, reply) ==
  /\ isAuthenticated
  /\ r \in request
  /\ r.state = "inflight"
  /\ LET data == fetchFragmentFromAI(reply)
     IN /\ IF data.ok
             THEN /\ secretTag' \in Tags
                  /\ currentFragment' = data.fragmentText
                  /\ revelationText' = data.revelationText
                  /\ gameState' = "playing"
                  /\ errorMessage' = errorMessage
             ELSE /\ secretTag' = "FATE"
                  /\ revelationText' = "system failure"
                  /\ currentFragment' = ""
                  /\ gameState' = "error"
                  /\ errorMessage' = "AI Generation Error"
        /\ request' = (request \ {r})
             \cup {[r EXCEPT !.state = IF data.ok THEN "ok" ELSE "failed",
                             !.reply = reply,
                             !.fragmentText = data.fragmentText,
                             !.revelationText = data.revelationText]}
  /\ lastOp' = "fragment"
  /\ UNCHANGED <<fetchVars, relayVars>>
  /\ UNCHANGED <<registered, isAuthenticated, initialLoadComplete, stats,
                 totalRoundsPlayed, attemptCount, userClassification, store,
                 lastApplied, pending, calls, spent, logins, baseRounds, term, correct>>

\* variant: a failed request leaves the tag of the request in place
FragmentDone_ErrorKeepsTag(r, reply) ==
  /\ isAuthenticated
  /\ r \in request
  /\ r.state = "inflight"
  /\ LET data == fetchFragmentFromAI(reply)
     IN /\ IF data.ok
             THEN /\ secretTag' = r.secretTag
                  /\ currentFragment' = data.fragmentText
                  /\ revelationText' = data.revelationText
                  /\ gameState' = "playing"
                  /\ errorMessage' = errorMessage
             ELSE /\ secretTag' = r.secretTag
                  /\ revelationText' = "system failure"
                  /\ currentFragment' = ""
                  /\ gameState' = "error"
                  /\ errorMessage' = "AI Generation Error"
        /\ request' = (request \ {r})
             \cup {[r EXCEPT !.state = IF data.ok THEN "ok" ELSE "failed",
                             !.reply = reply,
                             !.fragmentText = data.fragmentText,
                             !.revelationText = data.revelationText]}
  /\ lastOp' = "fragment"
  /\ UNCHANGED <<fetchVars, relayVars>>
  /\ UNCHANGED <<registered, isAuthenticated, initialLoadComplete, stats,
                 totalRoundsPlayed, attemptCount, userClassification, store,
                 lastApplied, pending, calls, spent, logins, baseRounds, term, correct>>

\* variant: a failed request is only logged, the round state is left alone
FragmentDone_ErrorStaysLoading(r, reply) ==
  /\ isAuthenticated
  /\ r \in request
  /\ r.state = "inflight"
  /\ LET data == fetchFragmentFromAI(reply)
     IN /\ IF data.ok
             THEN /\ secretTag' = r.secretTag
                  /\ currentFragment' = data.fragmentText
                  /\ revelationText' = data.revelationText
                  /\ gameState' = "playing"
                  /\ errorMessage' = errorMessage
             ELSE UNCHANGED <<secretTag, revelationText, currentFragment,
                              gameState, errorMessage>>
        /\ request' = (request \ {r})
             \cup {[r EXCEPT !.state = IF data.ok THEN "ok" ELSE "failed",
                             !.reply = reply,
                             !.fragmentText = data.fragmentText,
                             !.revelationText = data.revelationText]}
  /\ lastOp' = "fragment"
  /\ UNCHANGED <<fetchVars, relayVars>>
  /\ UNCHANGED <<registered, isAuthenticated, initialLoadComplete, stats,
                 totalRoundsPlayed, attemptCount, userClassification, store,
                 lastApplied, pending, calls, spent, logins, baseRounds, term, correct>>

\* startNewRound after the await, for the call that issued request r:
\* fetchFragmentFromAI resolved or threw
FragmentDone(r, reply) ==
  /\ isAuthenticated
  /\ r \in request
  /\ r.state = "inflight"
  /\ LET data == fetchFragmentFromAI(reply)
     IN /\ IF data.ok
             THEN /\ secretTag' = r.secretTag
                  /\ currentFragment' = data.fragmentText
                  /\ revelationText' = data.revelationText
                  /\ gameState' = "playing"
                  /\ errorMessage' = errorMessage
             ELSE /\ secretTag' = "FATE"
                  /\ revelationText' = "system failure"
                  /\ currentFragment' = ""
                  /\ gameState' = "error"
                  /\ errorMessage' = "AI Generation Error"
        /\ request' = (request \ {r})
             \cup {[r EXCEPT !.state = IF data.ok THEN "ok" ELSE "failed",
                             !.reply = reply,
                             !.fragmentText = data.fragmentText,
                             !.revelationText = data.revelationText]}
  /\ lastOp' = "fragment"
  /\ UNCHANGED <<fetchVars, relayVars>>
  /\ UNCHANGED <<registered, isAuthenticated, initialLoadComplete, stats,
                 totalRoundsPlayed, attemptCount, userClassification, store,
                 lastApplied, pending, calls, spent, logins, baseRounds, term, correct>>

\* variant: a correct answer leaves highestScore alone
Scored_KeepHighest(s, isCorrect) ==
  IF isCorrect
    THEN LET streak == s.currentStreak + 1
         IN [currentScore |-> s.currentScore + ScoreStep,
             currentStreak |-> streak,
             highestStreak |-> IF streak > s.highestStreak THEN streak
                                                           ELSE s.highestStreak,
             highestScore |-> s.highestScore,
             difficultyTier |-> IF streak % PromotionEvery = 0
                                  THEN s.difficultyTier + 1
                                  ELSE s.difficultyTier]
    ELSE [s EXCEPT !.currentStreak = 0]

\* variant: the promotion test reads the streak before the increment
Scored_PromoteLate(s, isCorrect) ==
  IF isCorrect
    THEN LET score == s.currentScore + ScoreStep
             streak == s.currentStreak + 1
         IN [currentScore |-> score,
             currentStreak |-> streak,
             highestStreak |-> IF streak > s.highestStreak THEN streak
                                                           ELSE s.highestStreak,
             highestScore |-> IF score > s.highestScore THEN score
                                                        ELSE s.highestScore,
             difficultyTier |-> IF s.currentStreak % PromotionEvery = 0
                                  THEN s.difficultyTier + 1
                                  ELSE s.difficultyTier]
    ELSE [s EXCEPT !.currentStreak = 0]

\* variant: a miss clears the score as well as the streak
Scored_MissClearsScore(s, isCorrect) ==
  IF isCorrect
    THEN LET score == s.currentScore + ScoreStep
             streak == s.currentStreak + 1
         IN [currentScore |-> score,
             currentStreak |-> streak,
             highestStreak |-> IF streak > s.highestStreak THEN streak
                                                           ELSE s.highestStreak,
             highestScore |-> IF score > s.highestScore THEN score
                                                        ELSE s.highestScore,
             difficultyTier |-> IF streak % PromotionEvery = 0
                                  THEN s.difficultyTier + 1
                                  ELSE s.difficultyTier]
    ELSE [s EXCEPT !.currentStreak = 0, !.currentScore = 0]

\* variant: a miss costs the points of one correct answer
Scored_MissCostsPoints(s, isCorrect) ==
  IF isCorrect
    THEN LET score == s.currentScore + ScoreStep
             streak == s.currentStreak + 1
         IN [currentScore |-> score,
             currentStreak |-> streak,
             highestStreak |-> IF streak > s.highestStreak THEN streak
                                                           ELSE s.highestStreak,
             highestScore |-> IF score > s.highestScore THEN score
                                                        ELSE s.highestScore,
             difficultyTier |-> IF streak % PromotionEvery = 0
                                  THEN s.difficultyTier + 1
                                  ELSE s.difficultyTier]
    ELSE [s EXCEPT !.currentStreak = 0,
                   !.currentScore = s.currentScore - ScoreStep]

\* the scoring of handleClassification
Scored(s, isCorrect) ==
  IF isCorrect
    THEN LET score == s.currentScore + ScoreStep
             streak == s.currentStreak + 1
         IN [currentScore |-> score,
             currentStreak |-> streak,
             highestStreak |-> IF streak > s.highestStreak THEN streak
                                                           ELSE s.highestStreak,
             highestScore |-> IF score > s.highestScore THEN score
                                                        ELSE s.highestScore,
             difficultyTier |-> IF streak % PromotionEvery = 0
                                  THEN s.difficultyTier + 1
                                  ELSE s.difficultyTier]
    ELSE [s EXCEPT !.currentStreak = 0]

Promoted(s, isCorrect) ==
  isCorrect /\ (s.currentStreak + 1) % PromotionEvery = 0

\* variant: no early return when the round is not being played
handleClassification_Unguarded(choice) ==
  /\ isAuthenticated
  /\ lastOp' = "classify"
  /\ UNCHANGED <<fetchVars, relayVars>>
  /\ LET isCorrect == choice = secretTag
         newStats == Scored(stats, isCorrect)
     IN /\ userClassification' = choice
        /\ gameState' = "revealing"
        /\ stats' = newStats
        /\ correct' = IF isCorrect THEN correct + 1 ELSE correct
        /\ updateStatsInDb("classify", newStats)
        /\ errorMessage' = IF Promoted(stats, isCorrect)
                             THEN "Promotion Achieved" ELSE errorMessage
        /\ UNCHANGED <<initialLoadComplete, totalRoundsPlayed, attemptCount,
                       secretTag, currentFragment, revelationText, request>>
  /\ UNCHANGED <<registered, isAuthenticated, store, lastApplied, calls, spent,
                 logins, baseRounds, term>>

\* handleClassification(choice)
handleClassification(choice) ==
  /\ isAuthenticated
  /\ lastOp' = "classify"
  /\ UNCHANGED <<fetchVars, relayVars>>
  /\ IF gameState # "playing"
       THEN UNCHANGED <<gameVars, pending, correct>>
       ELSE LET isCorrect == choice = secretTag
                newStats == Scored(stats, isCorrect)
            IN /\ userClassification' = choice
               /\ gameState' = "revealing"
               /\ stats' = newStats
               /\ correct' = IF isCorrect THEN correct + 1 ELSE correct
               /\ updateStatsInDb("classify", newStats)
               /\ errorMessage' = IF Promoted(stats, isCorrect)
                                    THEN "Promotion Achieved" ELSE errorMessage
               /\ UNCHANGED <<initialLoadComplete, totalRoundsPlayed, attemptCount,
                              secretTag, currentFragment, revelationText, request>>
  /\ UNCHANGED <<registered, isAuthenticated, store, lastApplied, calls, spent,
                 logins, baseRounds, term>>

\* handleSignOut up to its await; the Log Out link is rendered once the
\* profile fetch has finished
handleSignOut ==
  /\ isAuthenticated
  /\ initialLoadComplete
  /\ updateStatsInDb("signout",
                     [stats EXCEPT !.currentScore = 0, !.currentStreak = 0])
  /\ lastOp' = "signout"
  /\ UNCHANGED <<fetchVars, relayVars>>
  /\ UNCHANGED <<registered, isAuthenticated, gameVars, store, lastApplied,
                 calls, spent, logins, baseRounds, term, correct>>

\* variant: updateStatsInDb is not awaited
onSignOut_NoAwait(i) ==
  /\ pending[i].kind = "signout"
  /\ term' = [state |-> pending[i].state,
              currentScore |-> pending[i].data.currentScore,
              currentStreak |-> pending[i].data.currentStreak]
  /\ correct' = 0
  /\ pending' = Remove(pending, i)
  /\ isAuthenticated' = FALSE
  /\ Mounted
  /\ lastOp' = "onSignOut"
  /\ UNCHANGED <<fetchVars, relayVars>>
  /\ UNCHANGED <<registered, store, lastApplied, calls, spent, logins, baseRounds>>

\* handleSignOut after the await: updateStatsInDb has settled (it swallows a
\* failure), onSignOut() signs out and the auth listener unmounts Game
onSignOut(i) ==
  /\ pending[i].kind = "signout"
  /\ pending[i].state # "inflight"
  /\ term' = [state |-> pending[i].state,
              currentScore |-> pending[i].data.currentScore,
              currentStreak |-> pending[i].data.currentStreak]
  /\ correct' = 0
  /\ pending' = Remove(pending, i)
  /\ isAuthenticated' = FALSE
  /\ Mounted
  /\ lastOp' = "onSignOut"
  /\ UNCHANGED <<fetchVars, relayVars>>
  /\ UNCHANGED <<registered, store, lastApplied, calls, spent, logins, baseRounds>>

\* the steps of a mounted Game and of the store, within the bounds given; the
\* classifier buttons are disabled unless the round is being played
\* the steps of a session short of signing out
RoundSteps(maxCalls, maxPending) ==
  \/ \E ok \in BOOLEAN : fetchUserData(ok)
  \/ spent + calls < maxCalls /\ \E tag \in Tags : startNewRound(tag)
  \/ \E r \in request : \E reply \in Replies : FragmentDone(r, reply)
  \/ /\ gameState = "playing"
     /\ Len(pending) < maxPending
     /\ \E choice \in Tags : handleClassification(choice)
  \/ \E i \in 1..Len(pending) : \E ok \in BOOLEAN : WriteSettle(i, ok)

GameSteps(maxCalls, maxPending) ==
  \/ RoundSteps(maxCalls, maxPending)
  \/ Len(pending) < maxPending /\ handleSignOut
  \/ \E i \in 1..Len(pending) : onSignOut(i)

\* the program from the first authentication on
Next ==
  \/ logins < MaxLogins /\ Register
  \/ logins < MaxLogins /\ Login
  \/ GameSteps(MaxCalls, MaxPending)

Spec == Init /\ [][Next]_vars

\* short sessions with overlapping writes
NextRace ==
  \/ logins < RaceLogins /\ Register
  \/ logins < RaceLogins /\ Login
  \/ GameSteps(RaceCalls, RacePending)

SpecRace == Init /\ [][NextRace]_vars

\* two sessions, the first of which may be left part-way through a round of
\* attempts
NextRelogin ==
  \/ logins < ReloginLogins /\ Register
  \/ logins < ReloginLogins /\ Login
  \/ GameSteps(ReloginCalls, ReloginPending)

SpecRelogin == Init /\ [][NextRelogin]_vars

\* one session: Game has just been mounted, for a user whose setDoc is still
\* in flight or for a returning user
InitMounted ==
  /\ registered = TRUE
  /\ isAuthenticated = TRUE
  /\ gameState = "loading"
  /\ initialLoadComplete = FALSE
  /\ stats = DefaultStats
  /\ totalRoundsPlayed = 0
  /\ attemptCount = 0
  /\ secretTag = Null
  /\ userClassification = Null
  /\ currentFragment = ""
  /\ revelationText = Null
  /\ errorMessage = Null
  /\ request = NoRequest
  /\ \/ store = NoDoc /\ pending = <<Write("create", RegistrationDoc)>>
        /\ lastApplied = "none" /\ lastOp = "register"
     \/ store = ReturningDoc /\ pending = <<>>
        /\ lastApplied = "signout" /\ lastOp = "login"
  /\ calls = 0
  /\ spent = 0
  /\ logins = 1
  /\ baseRounds = 0
  /\ term = NoTerm
  /\ correct = 0
  /\ fScript = <<>>
  /\ fPc = "idle"
  /\ fRetries = DefaultRetries
  /\ fI = 0
  /\ fResponse = NoResponse
  /\ fError = "none"
  /\ fLog = <<>>
  /\ InitRelay

NextSession == GameSteps(SessionCalls, SessionPending)

SpecSession == InitMounted /\ [][NextSession]_vars

\* one session for as long as the user plays, in which handleClassification
\* is also called while its buttons are disabled
NextRounds ==
  \/ RoundSteps(RoundCalls, RoundPending)
  \/ gameState # "playing" /\ \E choice \in Tags : handleClassification(choice)

SpecRounds == InitMounted /\ [][NextRounds]_vars

\* the returning user of InitMounted is a state Spec reaches
ReturningUserNotReached ==
  ~(registered /\ ~isAuthenticated /\ store = ReturningDoc /\ pending = <<>>
     /\ lastApplied = "signout")

(* --------------------- api/ai.js: the retrying fetch ------------------- *)
\* variant: the delay grows by one base delay per attempt
Delay_Linear(i, jitter) == (i + 1) * BaseDelay + jitter

\* the delay before the retry that follows attempt i
Delay(i, jitter) == (2 ^ i) * BaseDelay + jitter

\* Math.random() * bound, to the millisecond: the ends of [0, bound)
Jitters(bound) == {0, bound - 1}

Call(status) == [ev |-> "call", val |-> status]
Wait(delay) == [ev |-> "wait", val |-> delay]

\* variant: a 429 is returned like any other response
FetchAttempt_NoRetry(status, jitter) ==
  /\ fPc = "fetch"
  /\ IF status # Thrown
       THEN IF FALSE
              THEN /\ jitter \in Jitters(RateLimitJitter)
                   /\ fLog' = fLog \o <<Call(status), Wait(Delay(fI, jitter))>>
                   /\ fPc' = "sleep"
                   /\ fResponse' = fResponse
                   /\ fError' = fError
              ELSE /\ jitter = 0
                   /\ fLog' = Append(fLog, Call(status))
                   /\ fPc' = "returned"
                   /\ fResponse' = [status |-> status, attempt |-> fI + 1]
                   /\ fError' = fError
       ELSE IF fI = fRetries - 1
              THEN /\ jitter = 0
                   /\ fLog' = Append(fLog, Call(status))
                   /\ fPc' = "threw"
                   /\ fResponse' = fResponse
                   /\ fError' = "transport error"
              ELSE /\ jitter \in Jitters(ConnectionJitter)
                   /\ fLog' = fLog \o <<Call(status), Wait(Delay(fI, jitter))>>
                   /\ fPc' = "sleep"
                   /\ fResponse' = fResponse
                   /\ fError' = fError
  /\ UNCHANGED <<fScript, fRetries, fI, sessionVars, relayVars>>

\* variant: a thrown call is always followed by a wait, the last one too
FetchAttempt_WaitAfterLast(status, jitter) ==
  /\ fPc = "fetch"
  /\ IF status # Thrown
       THEN IF status = RateLimited /\ fI < fRetries - 1
              THEN /\ jitter \in Jitters(RateLimitJitter)
                   /\ fLog' = fLog \o <<Call(status), Wait(Delay(fI, jitter))>>
                   /\ fPc' = "sleep"
                   /\ fResponse' = fResponse
                   /\ fError' = fError
              ELSE /\ jitter = 0
                   /\ fLog' = Append(fLog, Call(status))
                   /\ fPc' = "returned"
                   /\ fResponse' = [status |-> status, attempt |-> fI + 1]
                   /\ fError' = fError
       ELSE IF FALSE
              THEN /\ jitter = 0
                   /\ fLog' = Append(fLog, Call(status))
                   /\ fPc' = "threw"
                   /\ fResponse' = fResponse
                   /\ fError' = "transport error"
              ELSE /\ jitter \in Jitters(ConnectionJitter)
                   /\ fLog' = fLog \o <<Call(status), Wait(Delay(fI, jitter))>>
                   /\ fPc' = "sleep"
                   /\ fResponse' = fResponse
                   /\ fError' = fError
  /\ UNCHANGED <<fScript, fRetries, fI, sessionVars, relayVars>>

\* variant: every status but 200 is retried
FetchAttempt_RetryOnError(status, jitter) ==
  /\ fPc = "fetch"
  /\ IF status # Thrown
       THEN IF status # 200 /\ fI < fRetries - 1
              THEN /\ jitter \in Jitters(RateLimitJitter)
                   /\ fLog' = fLog \o <<Call(status), Wait(Delay(fI, jitter))>>
                   /\ fPc' = "sleep"
                   /\ fResponse' = fResponse
                   /\ fError' = fError
              ELSE /\ jitter = 0
                   /\ fLog' = Append(fLog, Call(status))
                   /\ fPc' = "returned"
                   /\ fResponse' = [status |-> status, attempt |-> fI + 1]
                   /\ fError' = fError
       ELSE IF fI = fRetries - 1
              THEN /\ jitter = 0
                   /\ fLog' = Append(fLog, Call(status))
                   /\ fPc' = "threw"
                   /\ fResponse' = fResponse
                   /\ fError' = "transport error"
              ELSE /\ jitter \in Jitters(ConnectionJitter)
                   /\ fLog' = fLog \o <<Call(status), Wait(Delay(fI, jitter))>>
                   /\ fPc' = "sleep"
                   /\ fResponse' = fResponse
                   /\ fError' = fError
  /\ UNCHANGED <<fScript, fRetries, fI, sessionVars, relayVars>>

\* variant: a 429 is retried on the last pass too
FetchAttempt_RetryLast429(status, jitter) ==
  /\ fPc = "fetch"
  /\ IF status # Thrown
       THEN IF status = RateLimited
              THEN /\ jitter \in Jitters(RateLimitJitter)
                   /\ fLog' = fLog \o <<Call(status), Wait(Delay(fI, jitter))>>
                   /\ fPc' = "sleep"
                   /\ fResponse' = fResponse
                   /\ fError' = fError
              ELSE /\ jitter = 0
                   /\ fLog' = Append(fLog, Call(status))
                   /\ fPc' = "returned"
                   /\ fResponse' = [status |-> status, attempt |-> fI + 1]
                   /\ fError' = fError
       ELSE IF fI = fRetries - 1
              THEN /\ jitter = 0
                   /\ fLog' = Append(fLog, Call(status))
                   /\ fPc' = "threw"
                   /\ fResponse' = fResponse
                   /\ fError' = "transport error"
              ELSE /\ jitter \in Jitters(ConnectionJitter)
                   /\ fLog' = fLog \o <<Call(status), Wait(Delay(fI, jitter))>>
                   /\ fPc' = "sleep"
                   /\ fResponse' = fResponse
                   /\ fError' = fError
  /\ UNCHANGED <<fScript, fRetries, fI, sessionVars, relayVars>>

\* variant: a 429 on the last pass makes the call throw
FetchAttempt_GiveUpOn429(status, jitter) ==
  /\ fPc = "fetch"
  /\ IF status # Thrown
       THEN IF status = RateLimited /\ fI < fRetries - 1
              THEN /\ jitter \in Jitters(RateLimitJitter)
                   /\ fLog' = fLog \o <<Call(status), Wait(Delay(fI, jitter))>>
                   /\ fPc' = "sleep"
                   /\ fResponse' = fResponse
                   /\ fError' = fError
              ELSE /\ jitter = 0
                   /\ fLog' = Append(fLog, Call(status))
                   /\ fPc' = IF status = RateLimited THEN "threw" ELSE "returned"
                   /\ fResponse' = IF status = RateLimited
                                     THEN fResponse
                                     ELSE [status |-> status, attempt |-> fI + 1]
                   /\ fError' = IF status = RateLimited THEN "Failed to connect"
                                                        ELSE fError
       ELSE IF fI = fRetries - 1
              THEN /\ jitter = 0
                   /\ fLog' = Append(fLog, Call(status))
                   /\ fPc' = "threw"
                   /\ fResponse' = fResponse
                   /\ fError' = "transport error"
              ELSE /\ jitter \in Jitters(ConnectionJitter)
                   /\ fLog' = fLog \o <<Call(status), Wait(Delay(fI, jitter))>>
                   /\ fPc' = "sleep"
                   /\ fResponse' = fResponse
                   /\ fError' = fError
  /\ UNCHANGED <<fScript, fRetries, fI, sessionVars, relayVars>>

\* one pass of the loop body: fetch answers with a status, or throws
\* (status = Thrown); then the function returns, throws or starts a wait.
\* jitter is the Math.random() term of the branch taken (0 where none is drawn)
FetchAttempt(status, jitter) ==
  /\ fPc = "fetch"
  /\ IF status # Thrown
       THEN IF status = RateLimited /\ fI < fRetries - 1
              THEN /\ jitter \in Jitters(RateLimitJitter)
                   /\ fLog' = fLog \o <<Call(status), Wait(Delay(fI, jitter))>>
                   /\ fPc' = "sleep"
                   /\ fResponse' = fResponse
                   /\ fError' = fError
              ELSE /\ jitter = 0
                   /\ fLog' = Append(fLog, Call(status))
                   /\ fPc' = "returned"
                   /\ fResponse' = [status |-> status, attempt |-> fI + 1]
                   /\ fError' = fError
       ELSE IF fI = fRetries - 1
              THEN /\ jitter = 0
                   /\ fLog' = Append(fLog, Call(status))
                   /\ fPc' = "threw"
                   /\ fResponse' = fResponse
                   /\ fError' = "transport error"
              ELSE /\ jitter \in Jitters(ConnectionJitter)
                   /\ fLog' = fLog \o <<Call(status), Wait(Delay(fI, jitter))>>
                   /\ fPc' = "sleep"
                   /\ fResponse' = fResponse
                   /\ fError' = fError
  /\ UNCHANGED <<fScript, fRetries, fI, sessionVars, relayVars>>

\* variant: the wait after a 429 does not use up an attempt
FetchWake_RateLimitFree ==
  /\ fPc = "sleep"
  /\ fI' = IF fLog[Len(fLog) - 1] = Call(RateLimited) THEN fI ELSE fI + 1
  /\ IF fI' < fRetries
       THEN fPc' = "fetch" /\ fError' = fError
       ELSE fPc' = "threw" /\ fError' = "Failed to connect"
  /\ UNCHANGED <<fScript, fRetries, fResponse, fLog, sessionVars, relayVars>>

\* the timer fires: i++ and the loop test; past the loop the function throws
FetchWake ==
  /\ fPc = "sleep"
  /\ fI' = fI + 1
  /\ IF fI + 1 < fRetries
       THEN fPc' = "fetch" /\ fError' = fError
       ELSE fPc' = "threw" /\ fError' = "Failed to connect"
  /\ UNCHANGED <<fScript, fRetries, fResponse, fLog, sessionVars, relayVars>>

\* exponentialBackoffFetch(url, options, retries) is called
InitFetch ==
  /\ InitSession
  /\ fRetries \in 1..MaxRetries
  /\ fScript \in [1..MaxRetries -> Statuses \cup {Thrown}]
  /\ fPc = "fetch"
  /\ fI = 0
  /\ fResponse = NoResponse
  /\ fError = "none"
  /\ fLog = <<>>
  /\ InitRelay

NextFetch ==
  \/ \E jitter \in Jitters(RateLimitJitter) \cup Jitters(ConnectionJitter) :
       FetchAttempt(fScript[fI + 1], jitter)
  \/ FetchWake

SpecFetch == InitFetch /\ [][NextFetch]_vars

\* the same call when every transport call completes and every timer fires
SpecFetchLive == SpecFetch /\ WF_vars(NextFetch)

(* ------------- Game.jsx and api/ai.js: a round's request --------------- *)
\* the outcome exponentialBackoffFetch hands to fetchFragmentFromAI: the
\* status of the response it returned, or Thrown
FetchOutcome == IF fPc = "threw" THEN Thrown ELSE fResponse.status

\* startNewRound with the call it awaits: fetchFragmentFromAI calls
\* exponentialBackoffFetch(API_ENDPOINT, options), retries defaulting to 3,
\* and the first transport call is out
startNewRoundFetching(randomSecretTag) ==
  /\ StartRound(randomSecretTag)
  /\ fPc' = "fetch"
  /\ fRetries' = DefaultRetries
  /\ fI' = 0
  /\ fResponse' = NoResponse
  /\ fError' = "none"
  /\ fLog' = <<>>
  /\ UNCHANGED <<fScript, relayVars>>

\* the call has ended: fetchFragmentFromAI reads the response it returned (with
\* any of the bodies Replies has for its status) or catches what it threw, and
\* startNewRound resumes after its await
FragmentFetched(r, reply) ==
  /\ fPc \in {"returned", "threw"}
  /\ reply.status = FetchOutcome
  /\ FragmentDone(r, reply)

\* the steps that a request in flight waits for: the transport answers or
\* throws, a backoff timer fires, the awaiting code resumes
RequestSteps ==
  \/ /\ fPc = "fetch"
     /\ \E status \in Statuses \cup {Thrown} :
          \E jitter \in Jitters(RateLimitJitter) \cup Jitters(ConnectionJitter) :
            FetchAttempt(status, jitter)
  \/ FetchWake
  \/ /\ fPc \in {"returned", "threw"}
     /\ \E r \in request : \E reply \in Replies : FragmentFetched(r, reply)

\* one session in which every fragment request goes through the retrying fetch
NextLoad ==
  \/ \E ok \in BOOLEAN : fetchUserData(ok)
  \/ calls < LoadCalls /\ \E tag \in Tags : startNewRoundFetching(tag)
  \/ RequestSteps
  \/ /\ gameState = "playing"
     /\ Len(pending) < LoadPending
     /\ \E choice \in Tags : handleClassification(choice)
  \/ \E i \in 1..Len(pending) : \E ok \in BOOLEAN : WriteSettle(i, ok)

\* every transport call completes, every timer fires and every continuation
\* runs
SpecLoad == InitMounted /\ [][NextLoad]_vars /\ WF_vars(RequestSteps)

(* ------------------ server.js: the fragment relay route ---------------- *)
\* the model's text, in pieces: braces, text that is not JSON, and members
\* "fragmentText": v and "revelationText": v of an object
Brace(b) == [key |-> b, val |-> Absent]
Junk == [key |-> "junk", val |-> Absent]
Member(k, v) == [key |-> k, val |-> v]
Tokens ==
  {Brace("{"), Brace("}"), Junk}
    \cup {Member("fragmentText", v) : v \in {Str("a fragment"), Str(""), Num("42")}}
    \cup {Member("revelationText", v) : v \in {Str("a revelation"), Str("")}}
Texts == UNION {[1..n -> Tokens] : n \in 0..MaxTokens}

\* text.indexOf(b) and text.lastIndexOf(b), positions counted from 0
indexOf(text, b) ==
  LET at == {i \in 1..Len(text) : text[i].key = b}
  IN IF at = {} THEN -1 ELSE (CHOOSE i \in at : \A j \in at : i <= j) - 1
lastIndexOf(text, b) ==
  LET at == {i \in 1..Len(text) : text[i].key = b}
  IN IF at = {} THEN -1 ELSE (CHOOSE i \in at : \A j \in at : i >= j) - 1

\* text.substring(start, end)
substring(text, start, end) == SubSeq(text, start + 1, end)

JsonNull == [ok |-> FALSE, fragmentText |-> Absent, revelationText |-> Absent]

\* the value of the last member named k, undefined when there is none
Field(members, k) ==
  LET at == {i \in 1..Len(members) : members[i].key = k}
  IN IF at = {} THEN Absent
     ELSE members[CHOOSE i \in at : \A j \in at : i >= j].val

\* JSON.parse of a string that starts with '{' and ends with '}': an object
\* when what lies between is a list of members, a SyntaxError (null) otherwise
JSONparse(jsonString) ==
  LET members == SubSeq(jsonString, 2, Len(jsonString) - 1)
  IN IF \A i \in 1..Len(members) :
          members[i].key \in {"fragmentText", "revelationText"}
       THEN [ok |-> TRUE,
             fragmentText |-> Field(members, "fragmentText"),
             revelationText |-> Field(members, "revelationText")]
       ELSE JsonNull

extractJson(text) ==
  LET start == indexOf(text, "{")
      end == lastIndexOf(text, "}") + 1
  IN IF start # -1 /\ end # -1 /\ start < end
       THEN JSONparse(substring(text, start, end))
       ELSE JsonNull

Bodies ==
  [secretTag : {Absent, Str("FATE"), Str("CHANCE")},
   difficultyTier : {Absent, Num("0"), Num("1")}]

\* generateContent resolves with a text, resolves without one, or rejects
Outcomes ==
  {[kind |-> "text", text |-> t, message |-> ""] : t \in Texts}
    \cup {[kind |-> "notext", text |-> <<>>, message |-> ""]}
    \cup {[kind |-> "throws", text |-> <<>>, message |-> m] :
            m \in {"quota exceeded", "fetch failed"}}

Respond(status, fragment, revelation, error, detail) ==
  /\ rResponse' = [status |-> status, fragmentText |-> fragment,
                   revelationText |-> revelation,
                   error |-> error, detail |-> detail]
  /\ rSent' = rSent + 1
  /\ rPc' = "responded"

\* a POST /api/generate-fragment arrives
RelayReceive(body) ==
  /\ rPc \in {"idle", "responded"}
  /\ rPc' = "received"
  /\ rBody' = body
  /\ rModel' = NoModel
  /\ rResponse' = NoRelayResponse
  /\ rModelCalls' = 0
  /\ rSent' = 0
  /\ UNCHANGED <<sessionVars, fetchVars>>

\* variant: only secretTag is required
RelayValidate_TierOptional ==
  /\ rPc = "received"
  /\ IF ~Truthy(rBody.secretTag)
       THEN Respond(400, Absent, Absent,
                    "Missing secretTag or difficultyTier in request body.", "")
       ELSE rPc' = "calling" /\ UNCHANGED <<rResponse, rSent>>
  /\ UNCHANGED <<rBody, rModel, rModelCalls, sessionVars, fetchVars>>

\* the handler up to the call of the model
RelayValidate ==
  /\ rPc = "received"
  /\ IF ~Truthy(rBody.secretTag) \/ ~Truthy(rBody.difficultyTier)
       THEN Respond(400, Absent, Absent,
                    "Missing secretTag or difficultyTier in request body.", "")
       ELSE rPc' = "calling" /\ UNCHANGED <<rResponse, rSent>>
  /\ UNCHANGED <<rBody, rModel, rModelCalls, sessionVars, fetchVars>>

\* the error the try block throws for this outcome, "" when it throws none
Thrown_message(outcome) ==
  CASE outcome.kind = "throws" -> outcome.message
    [] outcome.kind = "notext" -> "Cannot read properties of undefined (reading 'trim')"
    [] OTHER -> ""

\* variant: an exception of the model call is not answered
RelayGenerate_Uncaught(outcome) ==
  /\ rPc = "calling"
  /\ rModel' = outcome
  /\ rModelCalls' = rModelCalls + 1
  /\ IF outcome.kind # "text"
       THEN rPc' = "responded" /\ UNCHANGED <<rResponse, rSent>>
       ELSE LET data == extractJson(outcome.text)
            IN IF data.ok /\ Truthy(data.fragmentText) /\ Truthy(data.revelationText)
                 THEN Respond(200, data.fragmentText, data.revelationText, "", "")
                 ELSE Respond(500, Absent, Absent,
                              "AI response format was invalid or unparsable.", "")
  /\ UNCHANGED <<rBody, sessionVars, fetchVars>>

\* the try block: the model is called and its answer checked
RelayGenerate(outcome) ==
  /\ rPc = "calling"
  /\ rModel' = outcome
  /\ rModelCalls' = rModelCalls + 1
  /\ IF outcome.kind # "text"
       THEN Respond(500, Absent, Absent,
                    "GenAI API call failed", Thrown_message(outcome))
       ELSE LET data == extractJson(outcome.text)
            IN IF data.ok /\ Truthy(data.fragmentText) /\ Truthy(data.revelationText)
                 THEN Respond(200, data.fragmentText, data.revelationText, "", "")
                 ELSE Respond(500, Absent, Absent,
                              "AI response format was invalid or unparsable.", "")
  /\ UNCHANGED <<rBody, sessionVars, fetchVars>>

NextRelay ==
  \/ \E body \in Bodies : RelayReceive(body)
  \/ RelayValidate
  \/ rPc = "calling" /\ \E outcome \in Outcomes : RelayGenerate(outcome)

SpecRelay == Init /\ [][NextRelay]_vars

(* ============================== claims ================================= *)
Max(a, b) == IF a >= b THEN a ELSE b

HighsCoverCurrents(s) ==
  /\ s.highestScore >= s.currentScore
  /\ s.highestStreak >= s.currentStreak

\* C1: in the local stats, in every stats object handed to updateDoc and in
\* the stored document once such a write has been applied, highestScore >=
\* currentScore and highestStreak >= currentStreak.
C1_HighestAtLeastCurrent ==
  /\ HighsCoverCurrents(stats)
  /\ \A i \in 1..Len(pending) :
       pending[i].kind # "create" => HighsCoverCurrents(pending[i].data)
  /\ lastApplied \in {"classify", "signout"} => HighsCoverCurrents(store)

\* a session that loaded highs above what it has scored so far, with its last
\* classification write in the store
C1_Witness ==
  /\ isAuthenticated
  /\ stats.currentScore > 0
  /\ stats.highestScore > stats.currentScore
  /\ lastApplied = "classify"
  /\ store.currentScore = stats.currentScore

\* a step in which handleClassification scores the fragment being played
ClassifyStep == gameState = "playing" /\ lastOp' = "classify"

\* C2: a correct classification adds 10 to the score and 1 to the streak,
\* raises the two highs to at least the new values, and raises the tier by
\* one, with the promotion notice, exactly when the new streak is a multiple
\* of 5.
C2_CorrectClassification ==
  [][(ClassifyStep /\ userClassification' = secretTag) =>
       /\ stats'.currentScore = stats.currentScore + 10
       /\ stats'.currentStreak = stats.currentStreak + 1
       /\ stats'.highestStreak = Max(stats.highestStreak, stats'.currentStreak)
       /\ stats'.highestScore = Max(stats.highestScore, stats'.currentScore)
       /\ IF stats'.currentStreak % 5 = 0
            THEN /\ stats'.difficultyTier = stats.difficultyTier + 1
                 /\ errorMessage' = "Promotion Achieved"
            ELSE /\ stats'.difficultyTier = stats.difficultyTier
                 /\ errorMessage' # "Promotion Achieved"]_vars

\* streak 4 / score 40 / tier 1 has become streak 5 / score 50 / tier 2
C2_Witness ==
  /\ lastOp = "classify"
  /\ gameState = "revealing"
  /\ userClassification = secretTag
  /\ stats.currentStreak = 5
  /\ stats.currentScore = 50
  /\ stats.difficultyTier = 2
  /\ errorMessage = "Promotion Achieved"

\* C3: an incorrect classification sets the streak to 0, leaves score, highs
\* and tier as they were and raises no promotion notice.
C3_IncorrectClassification ==
  [][(ClassifyStep /\ userClassification' # secretTag) =>
       /\ stats'.currentStreak = 0
       /\ stats'.currentScore = stats.currentScore
       /\ stats'.highestScore = stats.highestScore
       /\ stats'.highestStreak = stats.highestStreak
       /\ stats'.difficultyTier = stats.difficultyTier
       /\ errorMessage' = errorMessage
       /\ errorMessage' # "Promotion Achieved"]_vars

\* a miss after four correct answers: streak 0, score still 40, tier still 1
C3_Witness ==
  /\ lastOp = "classify"
  /\ gameState = "revealing"
  /\ userClassification # secretTag
  /\ stats.currentStreak = 0
  /\ stats.currentScore = 40
  /\ stats.highestStreak = 4
  /\ stats.difficultyTier = 1

\* C4: handleClassification invoked outside playing changes neither the round
\* state, the recorded classification, the stats, the store nor the writes in
\* flight; invoked in playing it moves to revealing; and while the component
\* is mounted the stats change only by the profile load or by such a step out
\* of playing.
C4_ClassifyOnlyWhilePlaying ==
  [][/\ lastOp' = "classify" =>
          IF gameState = "playing"
            THEN gameState' = "revealing"
            ELSE UNCHANGED <<gameVars, store, pending>>
     /\ (isAuthenticated /\ isAuthenticated' /\ stats' # stats) =>
          \/ lastOp' = "profile"
          \/ gameState = "playing" /\ gameState' = "revealing"]_vars

\* the handler was invoked on the error screen and did nothing
C4_Witness ==
  /\ lastOp = "classify"
  /\ gameState = "error"
  /\ userClassification = Null

\* C5: in a session the attempt counter is the number of start_round calls
\* modulo 5 and totalRoundsPlayed has grown by one for each of the calls
\* 1, 6, 11, ... whatever the rounds in between ended in.
C5_RoundPerFiveAttempts ==
  isAuthenticated =>
    /\ attemptCount = calls % 5
    /\ totalRoundsPlayed = baseRounds + ((calls + 4) \div 5)

\* the sixth start_round of a session has opened the second round
C5_Witness ==
  /\ isAuthenticated
  /\ calls = 6
  /\ attemptCount = 1
  /\ totalRoundsPlayed = baseRounds + 2

ZeroCounters(d) == d.currentScore = 0 /\ d.currentStreak = 0

\* C6 as claimed: whenever onSignOut() is called, a write with currentScore 0
\* and currentStreak 0 has been applied to the store.
C6_AlwaysPersistedBeforeSignOut ==
  term.state # "none" => term.state = "applied" /\ ZeroCounters(term)

\* C6 as amended: onSignOut() is called only once the sign-out write, which
\* carries currentScore 0 and currentStreak 0, has settled: applied to the
\* store, or failed (updateStatsInDb swallows the failure).
C6_SignOutAfterWriteSettled ==
  term.state # "none" =>
    term.state \in {"applied", "failed"} /\ ZeroCounters(term)

\* onSignOut() ran after the sign-out write was applied while a classification
\* write was still in flight
C6_Witness ==
  /\ term.state = "applied"
  /\ ~isAuthenticated
  /\ \E i \in 1..Len(pending) :
       pending[i].kind = "classify" /\ pending[i].state = "inflight"

\* a session after the first that has not started a round yet
NextLoginStartsAtZero ==
  (isAuthenticated /\ logins >= 2 /\ calls = 0) => ZeroCounters(stats)

\* C7 as claimed: the next session starts with both counters 0, and after the
\* sign-out, once no write is in flight, the stored counters are 0.
C7_ZeroAfterRace ==
  /\ NextLoginStartsAtZero
  /\ (term.state # "none" /\ ~isAuthenticated /\ pending = <<>> /\ store.exists)
       => ZeroCounters(store)

\* C7 as amended: the next session starts with both counters 0 whatever the
\* store holds, and the stored counters are 0 while the write applied last is
\* a sign-out write.
C7_NextLoginStartsAtZero ==
  /\ NextLoginStartsAtZero
  /\ lastApplied = "signout" => ZeroCounters(store)

\* the second session has just loaded a profile whose stored score is not 0
C7_Witness ==
  /\ logins = 2
  /\ lastOp = "profile"
  /\ store.exists
  /\ store.currentScore > 0
  /\ stats.highestScore = store.highestScore
  /\ ZeroCounters(stats)

\* C8: no write lowers the stored difficultyTier.
C8_TierNeverLowered ==
  [][(store.exists /\ store'.exists) =>
       store'.difficultyTier >= store.difficultyTier]_vars

\* C9: no write lowers the stored totalRoundsPlayed.
C9_RoundsNeverLowered ==
  [][(store.exists /\ store'.exists /\ store.totalRoundsPlayed # Undefined) =>
       store'.totalRoundsPlayed >= store.totalRoundsPlayed]_vars

\* the transport calls in the log
CallsMade == SelectSeq(fLog, LAMBDA e : e.ev = "call")

\* the log is call, wait, call, ..., wait, call with n calls
CallsWithWaitsBetween(n) ==
  /\ Len(fLog) = 2 * n - 1
  /\ \A j \in 1..Len(fLog) :
       fLog[j].ev = IF j % 2 = 1 THEN "call" ELSE "wait"

\* the transport answers 429 to the first k calls and another status to call k + 1
RateLimitedTimes(k) ==
  /\ k < fRetries
  /\ \A j \in 1..k : fScript[j] = 429
  /\ fScript[k + 1] \notin {429, Thrown}

\* C10: when the transport answers 429 k times (k < retries) and then with
\* another status, the call ends after exactly k + 1 transport calls with a
\* wait between consecutive calls, and returns the response of call k + 1.
C10_RetriesOnRateLimit ==
  \A k \in 0..(MaxRetries - 1) :
    (RateLimitedTimes(k) /\ fPc \in {"returned", "threw"}) =>
      /\ fPc = "returned"
      /\ Len(CallsMade) = k + 1
      /\ CallsWithWaitsBetween(k + 1)
      /\ fResponse = [status |-> fScript[k + 1], attempt |-> k + 1]

\* 429, 429, 200 with retries = 3: three calls, the 200 returned
C10_Witness ==
  /\ fRetries = 3
  /\ SubSeq(fScript, 1, 3) = <<429, 429, 200>>
  /\ fPc = "returned"
  /\ Len(CallsMade) = 3
  /\ fResponse.status = 200

\* the call has ended: it returned a response or threw
FetchEnded == fPc \in {"returned", "threw"}

\* every transport call of this invocation throws
AlwaysThrows == \A j \in 1..fRetries : fScript[j] = Thrown

\* the log is (call, wait) n - 1 times and then a call that nothing follows
WaitAfterEachButLast(n) ==
  /\ Len(fLog) = 2 * n - 1
  /\ \A j \in 1..Len(fLog) :
       IF j % 2 = 1
         THEN fLog[j] = Call(Thrown)
         ELSE /\ fLog[j].ev = "wait"
              /\ fLog[j].val - Delay((j \div 2) - 1, 0) \in 0..(ConnectionJitter - 1)

\* C11: when every transport call throws, the call ends after exactly
\* retries transport calls, with a wait after every failed call but the last,
\* and throws the error of the last call.
C11_ThrowsAfterAllAttempts ==
  (AlwaysThrows /\ FetchEnded) =>
    /\ fPc = "threw"
    /\ fError = "transport error"
    /\ Len(CallsMade) = fRetries
    /\ WaitAfterEachButLast(fRetries)

\* three calls that all throw, retries = 3
C11_Witness ==
  /\ fRetries = 3
  /\ AlwaysThrows
  /\ fPc = "threw"
  /\ Len(CallsMade) = 3
  /\ fLog[Len(fLog)] = Call(Thrown)

\* the status the transport gives to the call about to be made
NextStatus == fScript[fI + 1]

\* C12: a response with a status other than 429 ends the call at once: the
\* step that receives it adds that one transport call to the log and no wait,
\* returns that response, and no step follows a return.
C12_OtherResponseReturnedAtOnce ==
  [][/\ (fPc = "fetch" /\ NextStatus \notin {RateLimited, Thrown}) =>
          /\ fPc' = "returned"
          /\ fResponse' = [status |-> NextStatus, attempt |-> fI + 1]
          /\ fLog' = Append(fLog, Call(NextStatus))
     /\ fPc # "returned"]_vars

\* a 500 received on the second call, after a connection failure, is returned
C12_Witness ==
  /\ fRetries >= 3
  /\ fPc = "returned"
  /\ fResponse = [status |-> 500, attempt |-> 2]
  /\ fLog[1] = Call(Thrown)
  /\ Len(CallsMade) = 2

\* every transport call of this invocation is a 429 or throws
NeverAnswers == \A j \in 1..fRetries : fScript[j] \in {RateLimited, Thrown}

\* C13 as claimed: when no attempt gives a returnable response the call
\* throws "Failed to connect to the AI service after multiple retries."
C13_FailsUnreachable ==
  (NeverAnswers /\ FetchEnded) =>
    fPc = "threw" /\ fError = "Failed to connect"

\* C13 as amended: after retries calls that were all 429s or failures, the
\* call throws the error of the last call when that call threw and returns the
\* last response when it was a 429; it never throws the "Failed to connect"
\* error.
C13_LastOutcomeSurfaces ==
  /\ fError # "Failed to connect"
  /\ (NeverAnswers /\ FetchEnded) =>
       /\ Len(CallsMade) = fRetries
       /\ IF fScript[fRetries] = Thrown
            THEN fPc = "threw" /\ fError = "transport error"
            ELSE /\ fPc = "returned"
                 /\ fResponse = [status |-> RateLimited, attempt |-> fRetries]

\* a failure, then two 429s, retries = 3: the last 429 is returned
C13_Witness ==
  /\ fRetries = 3
  /\ SubSeq(fScript, 1, 3) = <<Thrown, RateLimited, RateLimited>>
  /\ fPc = "returned"
  /\ fResponse = [status |-> RateLimited, attempt |-> 3]
  /\ Len(CallsMade) = 3

NonEmptyString(x) == x.type = "string" /\ x.v # ""

\* the model's text gives no object, or one without a non-empty fragmentText
\* or revelationText
Unusable(text) ==
  LET data == extractJson(text)
  IN \/ ~data.ok
     \/ data.fragmentText \in {Absent, Str("")}
     \/ data.revelationText \in {Absent, Str("")}

\* C14: a 200 carries a fragmentText and a revelationText that are non-empty
\* strings, and a text that cannot be parsed or lacks one of them (or has it
\* empty) is answered with 500.
C14_OnlyCompleteFragments ==
  /\ rResponse.status = 200 =>
       /\ NonEmptyString(rResponse.fragmentText)
       /\ NonEmptyString(rResponse.revelationText)
  /\ (rPc = "responded" /\ rModel.kind = "text" /\ Unusable(rModel.text))
       => rResponse.status = 500

\* the request lacks secretTag or difficultyTier
LacksField(body) == body.secretTag = Absent \/ body.difficultyTier = Absent

\* C15: a request without secretTag or without difficultyTier is answered with
\* 400 by the first step of the handler, and the model is not called for it.
C15_MissingFieldRejected ==
  (rPc \in {"calling", "responded"} /\ LacksField(rBody)) =>
    /\ rPc = "responded"
    /\ rResponse.status = 400
    /\ rModelCalls = 0
    /\ rSent = 1

\* a request with a secretTag and no difficultyTier got its 400
C15_Witness ==
  /\ rBody = [secretTag |-> Str("FATE"), difficultyTier |-> Absent]
  /\ rPc = "responded"
  /\ rResponse.status = 400
  /\ rModelCalls = 0

\* C16: when the model call rejects, or its response has no text to read, the
\* handler answers 500 "GenAI API call failed" with the exception's message,
\* and every handled request has got exactly one response.
C16_ModelFailureAnswered ==
  /\ rPc = "responded" => rSent = 1
  /\ (rPc = "responded" /\ rModel.kind \in {"throws", "notext"}) =>
       /\ rResponse.status = 500
       /\ rResponse.error = "GenAI API call failed"
       /\ rResponse.detail = Thrown_message(rModel)
       /\ rResponse.detail # ""

\* the model call rejected with "quota exceeded" and the relay answered 500
C16_Witness ==
  /\ rPc = "responded"
  /\ rModel = [kind |-> "throws", text |-> <<>>, message |-> "quota exceeded"]
  /\ rResponse.status = 500
  /\ rResponse.detail = "quota exceeded"
  /\ rSent = 1

\* the profile fetch of this session has just finished, having read a document
ProfileJustRead ==
  /\ isAuthenticated
  /\ lastOp = "profile"
  /\ errorMessage = Null
  /\ store.exists

\* C17: when a login has read the profile, currentScore and currentStreak are
\* 0 and highestScore, highestStreak, difficultyTier and totalRoundsPlayed are
\* the stored ones (a field the document lacks counts as its floor value).
C17_ProfileRoundTrip ==
  ProfileJustRead =>
    /\ ZeroCounters(stats)
    /\ stats.highestScore = OrDefault(store.highestScore, 0)
    /\ stats.highestStreak = OrDefault(store.highestStreak, 0)
    /\ stats.difficultyTier = OrDefault(store.difficultyTier, 1)
    /\ totalRoundsPlayed = OrDefault(store.totalRoundsPlayed, 0)

\* the second session has loaded what the first one's sign-out stored
C17_Witness ==
  /\ ProfileJustRead
  /\ logins = 2
  /\ lastApplied = "signout"
  /\ stats.highestScore = 10
  /\ stats.highestStreak = 1
  /\ totalRoundsPlayed = 1

\* C18: once the first profile read of a session has completed the profile
\* document exists, and so does it whenever a classification or sign-out
\* write is in flight.
C18_ProfileExistsAfterFirstRead ==
  /\ (isAuthenticated /\ initialLoadComplete) => store.exists
  /\ \A i \in 1..Len(pending) :
       (pending[i].kind \in {"classify", "signout"}
          /\ pending[i].state = "inflight") => store.exists

RoundStates == {"loading", "ready_to_start", "playing", "revealing", "error"}

\* a step inside one session: the Game component is neither mounted nor
\* unmounted by it
SameSession == isAuthenticated /\ isAuthenticated' /\ logins' = logins

\* C19: the round state is one of the five states and, within a session,
\* changes only from loading to ready_to_start when the profile fetch ends
\* (before any start_round), to loading on start_round from ready_to_start,
\* revealing or error, from loading to playing or error when the fragment
\* request ends, and from playing to revealing on classify.
C19_RoundStateTransitions ==
  [][/\ gameState' \in RoundStates
     /\ (SameSession /\ gameState' # gameState) =>
          \/ /\ gameState = "loading" /\ gameState' = "ready_to_start"
             /\ lastOp' = "profile" /\ calls = 0
          \/ /\ gameState \in {"ready_to_start", "revealing", "error"}
             /\ gameState' = "loading" /\ lastOp' = "start"
          \/ /\ gameState = "loading" /\ gameState' \in {"playing", "error"}
             /\ lastOp' = "fragment"
          \/ /\ gameState = "playing" /\ gameState' = "revealing"
             /\ lastOp' = "classify"]_vars

\* a round was played and scored, and the next fragment request failed
C19_Witness ==
  /\ isAuthenticated
  /\ calls = 2
  /\ gameState = "error"
  /\ stats.currentScore = 10
  /\ lastOp = "fragment"

\* C20: in playing, the request of this round (the last one issued) has been
\* answered, none is outstanding, the fragment and the revelation shown are
\* the non-empty texts of that answer and secretTag is the tag of that request.
C20_PlayingOnArrivedFragment ==
  (isAuthenticated /\ gameState = "playing") =>
    \E r \in request :
      /\ request = {r}
      /\ r.id = calls
      /\ r.state = "ok"
      /\ currentFragment = r.fragmentText
      /\ currentFragment # ""
      /\ revelationText = r.revelationText
      /\ revelationText \notin {"", Null}
      /\ secretTag = r.secretTag
      /\ secretTag \in Tags

\* the second round of a session is being played, after a missed first one
C20_Witness ==
  /\ isAuthenticated
  /\ gameState = "playing"
  /\ calls = 2
  /\ secretTag = "CHANCE"
  /\ userClassification = Null
  /\ stats.currentScore = 0
  /\ lastOp = "fragment"

\* the fragment request failed: the transport threw after the retries, the
\* response is not OK, or its body lacks a non-empty text
RequestFailed(reply) ==
  \/ reply.status = Thrown
  \/ reply.status < 200
  \/ reply.status > 299
  \/ ~NonEmptyString(reply.fragmentText)
  \/ ~NonEmptyString(reply.revelationText)

\* the requests this step answered, as they are afterwards
Answered ==
  {a \in request' : \E r \in request : r.id = a.id /\ r.state = "inflight"
                                         /\ a.state # "inflight"}

\* C21: when the fragment request of start_round fails, the round state
\* becomes error with secretTag FATE, the explanatory revelation text, an empty
\* fragment and the error message set; the stats and the round count are
\* unchanged and no write is issued to or applied by the profile store.
C21_FailedRequestEndsInError ==
  [][\A a \in Answered :
       RequestFailed(a.reply) =>
         /\ gameState' = "error"
         /\ secretTag' = "FATE"
         /\ revelationText' = "system failure"
         /\ currentFragment' = ""
         /\ errorMessage' = "AI Generation Error"
         /\ UNCHANGED <<stats, totalRoundsPlayed, store, pending>>]_vars

\* after a scored round, the request for CHANCE came back OK with an empty
\* fragmentText
C21_Witness ==
  /\ gameState = "error"
  /\ lastOp = "fragment"
  /\ stats.currentScore = 10
  /\ \E r \in request :
       /\ r.id = calls
       /\ r.secretTag = "CHANCE"
       /\ r.reply.status = 200
       /\ r.reply.fragmentText = Str("")

InFlight == {r \in request : r.state = "inflight"}

\* C22: at most one fragment request is outstanding in a session, and one is
\* outstanding only while the state is loading; a request is issued only by a
\* start_round step taken from ready_to_start, revealing or error, which has
\* moved the state to loading when the request is out, and every issued
\* request advances the attempt counter by exactly one (modulo 5).
C22_OneRequestOutstanding ==
  /\ [](Cardinality(InFlight) <= 1)
  /\ [](InFlight # {} => gameState = "loading")
  /\ [][(\E r \in request' : r \notin request /\ r.state = "inflight") =>
          /\ gameState \in {"ready_to_start", "revealing", "error"}
          /\ gameState' = "loading"
          /\ lastOp' = "start"
          /\ calls' = calls + 1
          /\ Cardinality(request' \ request) = 1
          /\ attemptCount' = (attemptCount + 1) % AttemptsPerRound]_vars
  /\ [][attemptCount' # attemptCount =>
          \E r \in request' : r \notin request /\ r.state = "inflight"]_vars

\* the second request of a session is out, issued from the error state the
\* first one ended in
C22_Witness ==
  /\ gameState = "loading"
  /\ lastOp = "start"
  /\ calls = 2
  /\ attemptCount = 2
  /\ secretTag = "FATE"
  /\ \E r \in request : r.id = 2 /\ r.state = "inflight" /\ r.secretTag = "CHOICE"

InFlightWrites(q) == {i \in 1..Len(q) : q[i].state = "inflight"}

\* C23: classify moves to revealing and updates the local stats in the step
\* that issues the write, which is then still in flight; when the write is
\* answered, applied or not, the round state, the stats and the alert are left
\* as they were, the write is gone and none is issued in its place, and
\* start_round can be taken from revealing whatever became of the write.
C23_ClassifyWriteFireAndForget ==
  /\ [][(lastOp' = "classify" /\ gameState = "playing") =>
          /\ gameState' = "revealing"
          /\ stats' = Scored(stats, userClassification' = secretTag)
          /\ Len(pending') = Len(pending) + 1
          /\ pending'[Len(pending')] =
               Write("classify", StatsWrite(stats', totalRoundsPlayed))]_vars
  /\ [][lastOp' = "settle" =>
          /\ UNCHANGED gameVars
          /\ Len(pending') <= Len(pending)
          /\ Cardinality(InFlightWrites(pending')) =
               Cardinality(InFlightWrites(pending)) - 1]_vars
  /\ []((isAuthenticated /\ gameState = "revealing") =>
          ENABLED (\E tag \in Tags : startNewRound(tag)))

\* the write of a correct classification was rejected: the score is 10 on
\* screen and still 0 in the store, and the state is revealing
C23_Witness ==
  /\ lastOp = "settle"
  /\ gameState = "revealing"
  /\ stats.currentScore = 10
  /\ store.exists
  /\ store.currentScore = 0
  /\ pending = <<>>

\* the 0-based index of the attempt that the log entry at position j belongs to
AttemptAt(j) == Cardinality({k \in 1..j : fLog[k].ev = "call"}) - 1

WaitsAt == {j \in 1..Len(fLog) : fLog[j].ev = "wait"}

\* C24: every wait follows a transport call that was a 429 or threw; after
\* attempt i it lasts 2^i * 1000 ms plus a jitter of 0..999 ms after a 429
\* and of 0..499 ms after a thrown call, and each wait of one invocation is
\* strictly longer than the waits before it.
C24_BackoffDelays ==
  /\ \A j \in WaitsAt :
       /\ j > 1
       /\ fLog[j - 1].ev = "call"
       /\ fLog[j - 1].val \in {RateLimited, Thrown}
       /\ LET jitter == fLog[j].val - (2 ^ AttemptAt(j)) * 1000
          IN IF fLog[j - 1].val = RateLimited
               THEN jitter \in 0..999
               ELSE jitter \in 0..499
  /\ \A j, k \in WaitsAt : j < k => fLog[j].val < fLog[k].val

\* the longest wait after a 429 on attempt 0, then the shortest waits after a
\* thrown call on attempt 1 and after a 429 on attempt 2
C24_Witness ==
  /\ Len(fLog) >= 6
  /\ fLog[1] = Call(RateLimited)
  /\ fLog[2] = Wait(1999)
  /\ fLog[3] = Call(Thrown)
  /\ fLog[4] = Wait(2000)
  /\ fLog[5] = Call(RateLimited)
  /\ fLog[6] = Wait(4000)

\* C25: whatever the transport answers, the call makes at most retries
\* transport calls, the k-th call being the k-th pass of the one loop whether
\* the calls before it were 429s or threw; it ends, and stays ended, having
\* made at least one call and either returned a response or thrown.
C25_TerminatesWithinBudget ==
  /\ [](Len(CallsMade) <= fRetries)
  /\ [](\A k \in 1..Len(CallsMade) : CallsMade[k] = Call(fScript[k]))
  /\ [](fPc \in {"fetch", "sleep"} => Len(CallsMade) = fI + (IF fPc = "sleep" THEN 1 ELSE 0))
  /\ [](FetchEnded =>
          /\ Len(CallsMade) >= 1
          /\ IF fPc = "returned"
               THEN fResponse # NoResponse /\ fError = "none"
               ELSE fResponse = NoResponse /\ fError # "none")
  /\ <>[]FetchEnded

\* a 429, a thrown call, a 429 and a thrown call use up retries = 4
C25_Witness ==
  /\ fRetries = 4
  /\ fPc = "threw"
  /\ CallsMade = <<Call(RateLimited), Call(Thrown), Call(RateLimited), Call(Thrown)>>

\* every transport call of the request was answered with a 429
AllRateLimited == \A k \in 1..Len(CallsMade) : CallsMade[k] = Call(RateLimited)

\* C26: when every attempt is answered with a 429, the call ends after
\* exactly retries transport calls, the last entry of its log being a call and
\* not a wait, by returning the last 429 and throwing nothing;
\* fetchFragmentFromAI throws on that response, and the step that answers the
\* request of the round puts the round in the error state.
C26_RateLimitedRoundEndsInError ==
  /\ []((FetchEnded /\ AllRateLimited) =>
          /\ Len(CallsMade) = fRetries
          /\ fLog[Len(fLog)] = Call(RateLimited)
          /\ fPc = "returned"
          /\ fResponse = [status |-> RateLimited, attempt |-> fRetries]
          /\ fError = "none"
          /\ \A reply \in Replies :
               reply.status = FetchOutcome => ~fetchFragmentFromAI(reply).ok)
  /\ [][\A a \in Answered :
          /\ a.reply.status = FetchOutcome
          /\ AllRateLimited =>
               /\ a.state = "failed"
               /\ gameState' = "error"
               /\ errorMessage' = "AI Generation Error"]_vars

\* three 429s in a row: the round is in error
C26_Witness ==
  /\ gameState = "error"
  /\ lastOp = "fragment"
  /\ fPc = "returned"
  /\ CallsMade = <<Call(RateLimited), Call(RateLimited), Call(RateLimited)>>
  /\ \E r \in request : r.state = "failed" /\ r.reply.status = RateLimited

\* C27: once start_round has put the state in loading with its request out,
\* the state eventually becomes playing or error; the step that leaves loading
\* answers the request with what the retrying fetch ended with, and leads to
\* playing exactly when that is an OK response with both texts non-empty and to
\* error, with the one alert of the wrapped error, in every other case.
C27_StartRoundLeavesLoading ==
  /\ (isAuthenticated /\ gameState = "loading" /\ InFlight # {})
       ~> (gameState \in {"playing", "error"})
  /\ [][\A a \in Answered :
          /\ gameState = "loading"
          /\ a.reply.status = FetchOutcome
          /\ IF RequestFailed(a.reply)
               THEN gameState' = "error" /\ errorMessage' = "AI Generation Error"
               ELSE gameState' = "playing" /\ errorMessage' = Null]_vars
  /\ [][(gameState = "loading" /\ initialLoadComplete
           /\ gameState' # "loading") => Answered # {}]_vars

\* the fetch threw on its third call, after a 429 and a thrown call, and the
\* round left loading for error
C27_Witness ==
  /\ gameState = "error"
  /\ lastOp = "fragment"
  /\ fPc = "threw"
  /\ CallsMade = <<Call(RateLimited), Call(Thrown), Call(Thrown)>>
  /\ \E r \in request : r.id = calls /\ r.reply.status = Thrown

\* C28: in every state the score on screen is 10 times the number of correct
\* classifications made in the session so far, hence a non-negative multiple
\* of 10, and is at least 10 times the streak; no step inside a session lowers
\* it.
C28_ScoreCountsCorrectAnswers ==
  /\ [](/\ stats.currentScore = 10 * correct
        /\ stats.currentScore >= 0
        /\ stats.currentScore % 10 = 0
        /\ stats.currentScore >= 10 * stats.currentStreak)
  /\ [][SameSession => stats'.currentScore >= stats.currentScore]_vars

\* two correct answers and then a miss: score 20, streak 0
C28_Witness ==
  /\ isAuthenticated
  /\ lastOp = "classify"
  /\ correct = 2
  /\ calls = 3
  /\ stats.currentScore = 20
  /\ stats.currentStreak = 0

\* C29: every mount of the Game component sets the attempt counter to 0, so
\* the first start_round of a session finds it at 0 and adds one to the
\* totalRoundsPlayed that was loaded, however many attempts the session before
\* had made; a start_round step issues no write and changes nothing in the
\* store, whose totalRoundsPlayed changes only when a classification or
\* sign-out write is applied.
C29_FirstRoundOfSessionCounts ==
  [][/\ logins' # logins => attemptCount' = 0
     /\ (calls' = calls + 1 /\ calls = 0) =>
          /\ attemptCount = 0
          /\ totalRoundsPlayed = baseRounds
          /\ totalRoundsPlayed' = baseRounds + 1
     /\ calls' = calls + 1 => UNCHANGED <<store, pending>>
     /\ store'.totalRoundsPlayed # store.totalRoundsPlayed =>
          /\ lastOp' = "settle"
          /\ lastApplied' \in {"classify", "signout"}]_vars

\* the session before made one attempt of its round and signed out; the first
\* start_round of this session has made the count 2 while the store holds 1
C29_Witness ==
  /\ isAuthenticated
  /\ logins = 2
  /\ spent = 1
  /\ calls = 1
  /\ lastOp = "start"
  /\ attemptCount = 1
  /\ baseRounds = 1
  /\ totalRoundsPlayed = 2
  /\ store.totalRoundsPlayed = 1
  /\ pending = <<>>

\* the request has no usable secretTag or difficultyTier (the field is absent,
\* an empty string or 0)
FieldMissing(body) == ~Truthy(body.secretTag) \/ ~Truthy(body.difficultyTier)

\* the model's text holds an object whose two texts are non-empty strings
ValidOutput(model) ==
  /\ model.kind = "text"
  /\ LET data == extractJson(model.text)
     IN /\ data.ok
        /\ NonEmptyString(data.fragmentText)
        /\ NonEmptyString(data.revelationText)

\* the status the request and the model's output for it call for
StatusFor(body, model) ==
  IF FieldMissing(body) THEN 400
  ELSE IF ValidOutput(model) THEN 200
  ELSE 500

\* C30: a handled request has been sent exactly one response, and no request
\* more than one; its status is 400 when a field is missing, 200 when the
\* model's output is valid and 500 when the model call failed or its output is
\* invalid, so it is fixed by the request and the model's output for it
\* whatever requests were handled before; the model is not called for a
\* request that is answered 400.
C30_OneResponseByRequestAlone ==
  /\ rSent <= 1
  /\ rPc = "responded" =>
       /\ rSent = 1
       /\ rResponse.status \in {400, 200, 500}
       /\ rResponse.status = StatusFor(rBody, rModel)
       /\ rResponse.status = 400 => rModel = NoModel

\* what holds of every handled request: one response, its status and body
\* fixed by the request and the model's output for it, a 200 being sent for
\* every object whose two fields are truthy
RelayAnswersByRequestAlone ==
  /\ rSent <= 1
  /\ rPc = "responded" =>
       /\ rSent = 1
       /\ rResponse.status \in {400, 200, 500}
       /\ LET data == extractJson(rModel.text)
              good == /\ rModel.kind = "text"
                      /\ data.ok
                      /\ Truthy(data.fragmentText)
                      /\ Truthy(data.revelationText)
          IN /\ rResponse.status =
                  IF FieldMissing(rBody) THEN 400
                  ELSE IF good THEN 200 ELSE 500
             /\ rResponse.status = 200 =>
                  /\ rResponse.fragmentText = data.fragmentText
                  /\ rResponse.revelationText = data.revelationText
             /\ rResponse.status = 400 => rModel = NoModel

====
